---- MODULE Spec2Model ----
(***************************************************************************)
(* Connection registry and message router of websocket_server.py.          *)
(*                                                                         *)
(* One asyncio task runs fastapi_websocket_endpoint per connection.  The   *)
(* tasks share the single ConnectionManager `manager`.  A task runs        *)
(* without interruption between two awaits, so every action below is the   *)
(* code that runs from one await to the next:                              *)
(*   await websocket.accept()        (line 40)                             *)
(*   await websocket.receive_text()  (line 147)                            *)
(*   await client.send_text(...)     (lines 82 and 100)                    *)
(* A task suspended at an await leaves the others free to run.             *)
(***************************************************************************)
EXTENDS Integers, Sequences, FiniteSets, TLC

\* Bounds of the model.
NumConns == 2
MaxFrames == 3

Conns == 1..NumConns
NoConn == 0
IDs == {"alice", "bob"}
None == "None"

\* The payloads of the state-update frames, and the custom_data of line 35.
Payloads == {"k1", "k2"}
EmptyDict == "{}"

BroadcastTypes == {"Sync_Boss_Data", "Boss_Death", "Ack_Sync"}
RelayTypes == {"offer", "answer", "candidate", "chat_message"}
RequestUsersType == "request_online_users"

\* The message types the clients of the model send: one of each class of
\* the dispatch, and one the dispatch does not know.
StateUpdateType == "UPDATE_FROM_A"
FrameTypes == {"Boss_Death", "offer", RequestUsersType, StateUpdateType}

VARIABLES
    pc,                  \* where each connection's endpoint task is
    client_state,        \* WebSocket.client_state of each connection
    alive,               \* the peer's transport is up: a send to it succeeds
    active_connections,  \* manager.active_connections
    user_to_ws,          \* manager.user_to_ws
    ws_to_user,          \* manager.ws_to_user
    users_online,        \* manager.main_json_data["users_online"]
    custom_data,         \* manager.main_json_data["custom_data"]
    current_user_id,     \* the endpoint's local current_user_id
    bc,                  \* each task's call of manager.broadcast in progress
    uc,                  \* each task's call of send_personal_message in progress
    nframes,             \* frames received so far, by all connections
    lastLog,             \* what the last step logged with a connection
    out                  \* what the last step sent and returned

vars == <<pc, client_state, alive, active_connections, user_to_ws, ws_to_user,
          users_online, custom_data, current_user_id, bc, uc, nframes, lastLog,
          out>>

-----------------------------------------------------------------------------
\* Texts on the wire.  A text is what json.loads makes of it (json, and the
\* fields the router reads) together with its layout (fmt), which json.loads
\* drops and json.dumps sets to its own.

Text(j, f, ty, sid, tid, us, p) ==
    [json |-> j, fmt |-> f, type |-> ty, senderId |-> sid, targetId |-> tid,
     users |-> us, payload |-> p]

NoText == [json |-> "none"]

\* What the clients send.  A targetId is given in the frames that are routed
\* by it, a payload in the state-update frames.
ClientFrames ==
    { Text("object", f, ty, sid, tid, {}, None) :
         f \in {"canonical", "other"}, ty \in FrameTypes \cap RelayTypes,
         sid \in IDs \cup {None}, tid \in IDs \cup {None} }
    \cup { Text("object", f, ty, sid, None, {}, None) :
         f \in {"canonical", "other"}, ty \in FrameTypes \cap BroadcastTypes,
         sid \in IDs \cup {None} }
    \cup { Text("object", "other", RequestUsersType, sid, None, {}, None) :
         sid \in IDs \cup {None} }
    \cup { Text("object", "other", StateUpdateType, sid, None, {}, p) :
         sid \in IDs \cup {None}, p \in Payloads }
    \cup { Text("invalid", "other", None, None, None, {}, None),
           Text("nonobject", "canonical", None, None, None, {}, None) }

json_loads(text) ==
    [type |-> text.type, senderId |-> text.senderId,
     targetId |-> text.targetId, users |-> text.users,
     payload |-> text.payload]

json_dumps(data) ==
    Text("object", "canonical", data.type, data.senderId, data.targetId,
         data.users, data.payload)

-----------------------------------------------------------------------------
\* Dictionaries.

EmptyMap == [k \in {} |-> NoConn]
Put(f, k, v) == [x \in DOMAIN f \cup {k} |-> IF x = k THEN v ELSE f[x]]
Pop(f, k) == [x \in DOMAIN f \ {k} |-> f[x]]

-----------------------------------------------------------------------------
\* ConnectionManager.  Its methods are functions of the manager's fields,
\* held in a record: ac, u2w, w2u, n (users_online), custom (custom_data),
\* and log, the record the step has logged.

NoLog == [level |-> "none", id |-> None, ws |-> NoConn]

Manager ==
    [ac |-> active_connections, u2w |-> user_to_ws, w2u |-> ws_to_user,
     n |-> users_online, custom |-> custom_data, log |-> NoLog]

update_user_count(M) == [M EXCEPT !.n = Cardinality(M.ac)]

\* connect, after the await of accept.
connect(M, ws) == update_user_count([M EXCEPT !.ac = @ \cup {ws}])

\* register_user that, for an ID that exists, leaves user_to_ws as it is and
\* writes the reverse entry all the same.
register_user_reverse_always(M, user_id, ws) ==
    IF user_id \notin DOMAIN M.u2w
    THEN [M EXCEPT !.u2w = Put(@, user_id, ws),
                   !.w2u = Put(@, ws, user_id),
                   !.log = [level |-> "INFO", id |-> user_id, ws |-> ws]]
    ELSE [M EXCEPT !.w2u = Put(@, ws, user_id),
                   !.log = [level |-> "WARNING", id |-> user_id, ws |-> ws]]

\* register_user without the test of line 47: a later claim takes the ID over.
register_user_overwrite(M, user_id, ws) ==
    [M EXCEPT !.u2w = Put(@, user_id, ws),
              !.w2u = Put(@, ws, user_id),
              !.log = [level |-> "INFO", id |-> user_id, ws |-> ws]]

register_user(M, user_id, ws) ==
    IF user_id \notin DOMAIN M.u2w
    THEN [M EXCEPT !.u2w = Put(@, user_id, ws),
                   !.w2u = Put(@, ws, user_id),
                   !.log = [level |-> "INFO", id |-> user_id, ws |-> ws]]
    ELSE [M EXCEPT !.log = [level |-> "WARNING", id |-> user_id, ws |-> ws]]

\* disconnect that reads ws_to_user[ws] at line 60 and leaves the entry in.
disconnect_keep_reverse(M, ws) ==
    LET M1 == [M EXCEPT !.ac = @ \ {ws}]
        M2 == IF ws \in DOMAIN M1.w2u
              THEN [M1 EXCEPT !.u2w = Pop(@, M1.w2u[ws])]
              ELSE M1
    IN  update_user_count(M2)

\* disconnect that counts the online users down by one in the place of the
\* update_user_count() of line 65.
disconnect_count_down(M, ws) ==
    LET M1 == [M EXCEPT !.ac = @ \ {ws}, !.n = @ - 1]
    IN  IF ws \in DOMAIN M1.w2u
        THEN [M1 EXCEPT !.w2u = Pop(@, ws), !.u2w = Pop(@, M1.w2u[ws])]
        ELSE M1

\* disconnect without the update_user_count() of line 65.
disconnect_no_count(M, ws) ==
    LET M1 == [M EXCEPT !.ac = @ \ {ws}]
    IN  IF ws \in DOMAIN M1.w2u
        THEN [M1 EXCEPT !.w2u = Pop(@, ws), !.u2w = Pop(@, M1.w2u[ws])]
        ELSE M1

disconnect(M, ws) ==
    LET M1 == [M EXCEPT !.ac = @ \ {ws}]
        M2 == IF ws \in DOMAIN M1.w2u
              THEN [M1 EXCEPT !.w2u = Pop(@, ws),
                              !.u2w = Pop(@, M1.w2u[ws])]
              ELSE M1
    IN  update_user_count(M2)

get_online_users(M) == DOMAIN M.u2w

\* The second loop of broadcast: disconnect every collected client.
RECURSIVE DisconnectAll(_, _)
DisconnectAll(M, S) ==
    IF S = {} THEN M
    ELSE LET x == CHOOSE y \in S : TRUE
         IN  DisconnectAll(disconnect(M, x), S \ {x})

-----------------------------------------------------------------------------
\* The calls in progress, and what a step puts out.

NoBc == [state |-> "none"]

NoUc == [kind |-> "none"]

\* to, msg: the text the step handed to a peer; ret: what
\* send_personal_message returned in the step; ended: the call of broadcast
\* that ended in the step.
NoOut == [to |-> NoConn, msg |-> NoText, ret |-> "none", ended |-> NoBc]

Init ==
    /\ pc = [c \in Conns |-> "init"]
    /\ client_state = [c \in Conns |-> "CONNECTING"]
    /\ alive = [c \in Conns |-> TRUE]
    /\ active_connections = {}
    /\ user_to_ws = EmptyMap
    /\ ws_to_user = EmptyMap
    /\ users_online = 0
    /\ custom_data = EmptyDict
    /\ current_user_id = [c \in Conns |-> None]
    /\ bc = [c \in Conns |-> NoBc]
    /\ uc = [c \in Conns |-> NoUc]
    /\ nframes = 0
    /\ lastLog = NoLog
    /\ out = NoOut

\* The manager's fields after a step, and the broadcasts in progress: a set
\* iterator does not come to a member that was discarded.
Commit(M, b) ==
    /\ active_connections' = M.ac
    /\ user_to_ws' = M.u2w
    /\ ws_to_user' = M.w2u
    /\ users_online' = M.n
    /\ custom_data' = M.custom
    /\ lastLog' = M.log
    /\ bc' = [t \in Conns |->
                IF b[t].state = "sending"
                THEN [b[t] EXCEPT !.pending = @ \cap M.ac]
                ELSE b[t]]

\* The endpoint's except and finally clauses (lines 212-221): the task ends
\* and its locals with it, and the server closes the transport of a task
\* that has ended.
Finally(M, c, b) ==
    /\ Commit(disconnect(M, c), b)
    /\ pc' = [pc EXCEPT ![c] = "done"]
    /\ alive' = [alive EXCEPT ![c] = FALSE]
    /\ current_user_id' = [current_user_id EXCEPT ![c] = None]

-----------------------------------------------------------------------------
\* The transport.

\* The peer of an accepted connection goes away, or its transport fails.
PeerDrop(c) ==
    /\ pc[c] \notin {"init", "done"}
    /\ alive[c]
    /\ alive' = [alive EXCEPT ![c] = FALSE]
    /\ Commit(Manager, bc)
    /\ out' = NoOut
    /\ UNCHANGED <<pc, client_state, current_user_id, uc, nframes>>

-----------------------------------------------------------------------------
\* ConnectionManager.broadcast (lines 93-111).

\* The call of broadcast with the text msg: the set iterator of line 97
\* notes the size of the set (si_used) and has every member still to come
\* (pending).  startOK and delivered record the members that were open and
\* sendable at the call, and the members the text has been sent to.
NewBroadcast(M, msg) ==
    [state |-> "sending", msg |-> msg, si_used |-> Cardinality(M.ac),
     pending |-> M.ac, cur |-> NoConn, remove |-> {},
     startOK |-> {x \in M.ac : client_state[x] = "CONNECTED" /\ alive[x]},
     delivered |-> {}]

\* The for statement of line 97 asks the iterator for the next member.  The
\* iterator raises RuntimeError when the set has another size than at its
\* creation; the error leaves broadcast and ends the task in the endpoint's
\* except clause.  Otherwise members that are not CONNECTED are collected
\* without an await, and the task is suspended at the send to the first
\* CONNECTED member the iterator comes to; with no member left, the collected
\* clients are disconnected and the call returns to the receive loop.
IterNext(c, M, b, o, cur) ==
    IF b.si_used # Cardinality(M.ac)
    THEN /\ Finally(M, c, [bc EXCEPT ![c] = NoBc])
         /\ out' = [o EXCEPT !.ended = [b EXCEPT !.state = "raised"]]
    ELSE LET closed == {x \in b.pending : client_state[x] # "CONNECTED"}
             open == b.pending \ closed
         IN  \/ \E x \in open, S \in SUBSET closed :
                  /\ Commit(M, [bc EXCEPT ![c] =
                         [b EXCEPT !.pending = @ \ (S \cup {x}),
                                   !.cur = x,
                                   !.remove = @ \cup S]])
                  /\ pc' = [pc EXCEPT ![c] = "bcast"]
                  /\ out' = o
                  /\ current_user_id' = [current_user_id EXCEPT ![c] = cur]
                  /\ UNCHANGED alive
             \/ /\ open = {}
                /\ LET rm == b.remove \cup closed
                   IN  /\ Commit(DisconnectAll(M, rm), [bc EXCEPT ![c] = NoBc])
                       /\ out' = [o EXCEPT !.ended =
                              [b EXCEPT !.state = "returned", !.remove = rm]]
                /\ pc' = [pc EXCEPT ![c] = "recv"]
                /\ current_user_id' = [current_user_id EXCEPT ![c] = cur]
                /\ UNCHANGED alive

\* The await of send_text at line 100 ends: the text is with the peer, or
\* the send raised and the client is collected; then the loop goes on.
BcastResume(c) ==
    /\ pc[c] = "bcast"
    /\ LET b == bc[c]
           x == b.cur
       IN  IF alive[x]
           THEN IterNext(c, Manager, [b EXCEPT !.delivered = @ \cup {x}],
                         [NoOut EXCEPT !.to = x, !.msg = b.msg],
                         current_user_id[c])
           ELSE IterNext(c, Manager, [b EXCEPT !.remove = @ \cup {x}], NoOut,
                         current_user_id[c])
    /\ UNCHANGED <<client_state, uc, nframes>>

-----------------------------------------------------------------------------
\* ConnectionManager.send_personal_message (lines 76-91).

\* Lines 78-80 and 90-91: the lookup, up to the await of send_text or to the
\* return of False.
SendPersonal(c, M, msg, user_id, kind) ==
    /\ IF user_id \in DOMAIN M.u2w
          /\ client_state[M.u2w[user_id]] = "CONNECTED"
       THEN /\ pc' = [pc EXCEPT ![c] = "ucast"]
            /\ uc' = [uc EXCEPT ![c] =
                  [msg |-> msg, kind |-> kind, id |-> user_id,
                   client |-> M.u2w[user_id]]]
            /\ out' = NoOut
       ELSE /\ pc' = pc
            /\ uc' = uc
            /\ out' = [NoOut EXCEPT !.ret = "false"]
    /\ Commit(M, bc)
    /\ UNCHANGED alive

\* The await of send_text at line 82 ends (lines 83-88), and the endpoint
\* is back at its receive.
UcastResume(c) ==
    /\ pc[c] = "ucast"
    /\ LET u == uc[c]
       IN  IF alive[u.client]
           THEN /\ out' = [NoOut EXCEPT !.to = u.client, !.msg = u.msg,
                                        !.ret = "true"]
                /\ Commit(Manager, bc)
           ELSE /\ out' = [NoOut EXCEPT !.ret = "false"]
                /\ Commit(disconnect(Manager, u.client), bc)
    /\ pc' = [pc EXCEPT ![c] = "recv"]
    /\ uc' = [uc EXCEPT ![c] = NoUc]
    /\ UNCHANGED <<client_state, alive, current_user_id, nframes>>

-----------------------------------------------------------------------------
\* fastapi_websocket_endpoint (lines 135-221).

\* The connections are numbered in the order in which their accept ends.
Accepted(c) ==
    /\ pc[c] = "init"
    /\ \A d \in Conns : d < c => pc[d] # "init"

\* manager.connect, from the end of the await of accept (lines 40-42).  An
\* iterator in progress comes to the new member if it was put behind the
\* iterator's position in the set's table, and not if it was put before it.
Connect(c) ==
    /\ Accepted(c)
    /\ client_state' = [client_state EXCEPT ![c] = "CONNECTED"]
    /\ pc' = [pc EXCEPT ![c] = "recv"]
    /\ \E behind \in SUBSET {t \in Conns : bc[t].state = "sending"} :
          Commit(connect(Manager, c),
                 [t \in Conns |->
                    IF t \in behind
                    THEN [bc[t] EXCEPT !.pending = @ \cup {c}]
                    ELSE bc[t]])
    /\ out' = NoOut
    /\ UNCHANGED <<alive, current_user_id, uc, nframes>>

\* accept raises: the peer went away during the handshake.
AcceptFail(c) ==
    /\ Accepted(c)
    /\ Finally(Manager, c, bc)
    /\ out' = NoOut
    /\ UNCHANGED <<client_state, uc, nframes>>

\* receive_text raises WebSocketDisconnect (line 147): the transport is
\* closed, and the WebSocket's client_state becomes DISCONNECTED.
RecvDisconnect(c) ==
    /\ pc[c] = "recv"
    /\ ~alive[c]
    /\ client_state' = [client_state EXCEPT ![c] = "DISCONNECTED"]
    /\ Finally(Manager, c, bc)
    /\ out' = NoOut
    /\ UNCHANGED <<uc, nframes>>

\* receive_text returns the text m; frames that arrived before the transport
\* went down are still received.
Recv(c, m) ==
    /\ pc[c] = "recv"
    /\ nframes < MaxFrames
    /\ m \in ClientFrames
    /\ nframes' = nframes + 1

\* Lines 149-153 without the except clause: JSONDecodeError reaches the
\* endpoint's except clause, and the task ends.
RecvInvalid_fatal(c, m) ==
    /\ Recv(c, m)
    /\ m.json = "invalid"
    /\ Finally(Manager, c, bc)
    /\ out' = NoOut
    /\ UNCHANGED <<client_state, uc>>

\* Lines 149-153: json.loads raises JSONDecodeError, and the loop continues.
RecvInvalid(c, m) ==
    /\ Recv(c, m)
    /\ m.json = "invalid"
    /\ Commit([Manager EXCEPT
                  !.log = [level |-> "WARNING", id |-> None, ws |-> c]], bc)
    /\ out' = NoOut
    /\ UNCHANGED <<pc, client_state, alive, current_user_id, uc>>

\* Line 155: the text is JSON but no object, and data.get raises
\* AttributeError: the endpoint's except clause and finally end the task.
RecvNonObject(c, m) ==
    /\ Recv(c, m)
    /\ m.json = "nonobject"
    /\ Finally(Manager, c, bc)
    /\ out' = NoOut
    /\ UNCHANGED <<client_state, uc>>

\* Lines 160-166: the registration of the frame's senderId, and the
\* endpoint's current_user_id.
StepA(M, cur, sender_id, ws) ==
    LET fresh == sender_id # None /\ sender_id \notin DOMAIN M.u2w
        M1 == IF fresh THEN register_user(M, sender_id, ws) ELSE M
        cur1 == IF fresh THEN sender_id ELSE cur
    IN  [M |-> M1,
         cur |-> IF sender_id \in DOMAIN M1.u2w THEN sender_id ELSE cur1]

\* Lines 170-175: a frame of a broadcast type.
RecvBroadcast(c, m) ==
    /\ Recv(c, m)
    /\ m.json = "object"
    /\ LET data == json_loads(m)
           A == StepA(Manager, current_user_id[c], data.senderId, c)
       IN  /\ data.type \in BroadcastTypes
           /\ IterNext(c, A.M, NewBroadcast(A.M, json_dumps(data)), NoOut,
                       A.cur)
    /\ UNCHANGED <<client_state, uc>>

\* Lines 177-187 with json.dumps(data) forwarded in the place of message.
RecvRelay_reserialized(c, m) ==
    /\ Recv(c, m)
    /\ m.json = "object"
    /\ LET data == json_loads(m)
           A == StepA(Manager, current_user_id[c], data.senderId, c)
           target_id == data.targetId
       IN  /\ data.type \in RelayTypes
           /\ current_user_id' = [current_user_id EXCEPT ![c] = A.cur]
           /\ IF target_id # None
              THEN SendPersonal(c, A.M, json_dumps(data), target_id, "relay")
              ELSE /\ Commit(A.M, bc)
                   /\ out' = NoOut
                   /\ UNCHANGED <<pc, alive, uc>>
    /\ UNCHANGED client_state

\* Lines 177-187: a frame of a relay type.
RecvRelay(c, m) ==
    /\ Recv(c, m)
    /\ m.json = "object"
    /\ LET data == json_loads(m)
           A == StepA(Manager, current_user_id[c], data.senderId, c)
           target_id == data.targetId
       IN  /\ data.type \in RelayTypes
           /\ current_user_id' = [current_user_id EXCEPT ![c] = A.cur]
           /\ IF target_id # None
              THEN SendPersonal(c, A.M, m, target_id, "relay")
              ELSE /\ Commit(A.M, bc)
                   /\ out' = NoOut
                   /\ UNCHANGED <<pc, alive, uc>>
    /\ UNCHANGED client_state

\* Lines 189-206: request_online_users.
RecvRequestUsers(c, m) ==
    /\ Recv(c, m)
    /\ m.json = "object"
    /\ LET data == json_loads(m)
           A == StepA(Manager, current_user_id[c], data.senderId, c)
           response == [type |-> "online_users_list",
                        users |-> get_online_users(A.M),
                        senderId |-> "server", targetId |-> None,
                        payload |-> None]
           target_id_for_response ==
               IF A.cur # None THEN A.cur ELSE data.senderId
       IN  /\ data.type = RequestUsersType
           /\ current_user_id' = [current_user_id EXCEPT ![c] = A.cur]
           /\ IF target_id_for_response # None
              THEN SendPersonal(c, A.M, json_dumps(response),
                                target_id_for_response, "reply")
              ELSE /\ Commit(A.M, bc)
                   /\ out' = NoOut
                   /\ UNCHANGED <<pc, alive, uc>>
    /\ UNCHANGED client_state

\* Lines 208-209: any other type.
RecvUnknown(c, m) ==
    /\ Recv(c, m)
    /\ m.json = "object"
    /\ LET data == json_loads(m)
           A == StepA(Manager, current_user_id[c], data.senderId, c)
       IN  /\ data.type \notin BroadcastTypes \cup RelayTypes \cup {RequestUsersType}
           /\ current_user_id' = [current_user_id EXCEPT ![c] = A.cur]
           /\ Commit(A.M, bc)
    /\ out' = NoOut
    /\ UNCHANGED <<pc, client_state, alive, uc>>

Next ==
    \/ \E c \in Conns : Connect(c)
    \/ \E c \in Conns : AcceptFail(c)
    \/ \E c \in Conns : PeerDrop(c)
    \/ \E c \in Conns : RecvDisconnect(c)
    \/ \E c \in Conns, m \in ClientFrames : RecvInvalid(c, m)
    \/ \E c \in Conns, m \in ClientFrames : RecvNonObject(c, m)
    \/ \E c \in Conns, m \in ClientFrames : RecvBroadcast(c, m)
    \/ \E c \in Conns, m \in ClientFrames : RecvRelay(c, m)
    \/ \E c \in Conns, m \in ClientFrames : RecvRequestUsers(c, m)
    \/ \E c \in Conns, m \in ClientFrames : RecvUnknown(c, m)
    \/ \E c \in Conns : BcastResume(c)
    \/ \E c \in Conns : UcastResume(c)

Spec == Init /\ [][Next]_vars

-----------------------------------------------------------------------------
\* The ConnectionManager under the calls the endpoint makes of it, in any
\* order: connect once per connection, then register_user and disconnect.

MgrConnect(c) ==
    /\ Accepted(c)
    /\ pc' = [pc EXCEPT ![c] = "recv"]
    /\ client_state' = [client_state EXCEPT ![c] = "CONNECTED"]
    /\ Commit(connect(Manager, c), bc)
    /\ UNCHANGED <<alive, current_user_id, uc, nframes, out>>

MgrRegister(user_id, c) ==
    /\ pc[c] = "recv"
    /\ Commit(register_user(Manager, user_id, c), bc)
    /\ UNCHANGED <<pc, client_state, alive, current_user_id, uc, nframes, out>>

MgrDisconnect(c) ==
    /\ pc[c] = "recv"
    /\ Commit(disconnect(Manager, c), bc)
    /\ UNCHANGED <<pc, client_state, alive, current_user_id, uc, nframes, out>>

MgrNext ==
    \/ \E c \in Conns : MgrConnect(c)
    \/ \E c \in Conns, user_id \in IDs : MgrRegister(user_id, c)
    \/ \E c \in Conns : MgrDisconnect(c)

SpecMgr == Init /\ [][MgrNext]_vars

-----------------------------------------------------------------------------
\* The server with one slow peer: a send_text to SlowPeer (lines 82 and 100)
\* stays suspended for as long as that peer's transport is up, and raises
\* once it is down.  The event loop resumes every other send.

SlowPeer == NumConns

SendEnds(x) == x # SlowPeer \/ ~alive[x]

BcastResumeSlow(c) ==
    /\ pc[c] = "bcast"
    /\ SendEnds(bc[c].cur)
    /\ BcastResume(c)

UcastResumeSlow(c) ==
    /\ pc[c] = "ucast"
    /\ SendEnds(uc[c].client)
    /\ UcastResume(c)

NextSlow ==
    \/ \E c \in Conns : Connect(c)
    \/ \E c \in Conns : AcceptFail(c)
    \/ \E c \in Conns : PeerDrop(c)
    \/ \E c \in Conns : RecvDisconnect(c)
    \/ \E c \in Conns, m \in ClientFrames : RecvInvalid(c, m)
    \/ \E c \in Conns, m \in ClientFrames : RecvNonObject(c, m)
    \/ \E c \in Conns, m \in ClientFrames : RecvBroadcast(c, m)
    \/ \E c \in Conns, m \in ClientFrames : RecvRelay(c, m)
    \/ \E c \in Conns, m \in ClientFrames : RecvRequestUsers(c, m)
    \/ \E c \in Conns, m \in ClientFrames : RecvUnknown(c, m)
    \/ \E c \in Conns : BcastResumeSlow(c)
    \/ \E c \in Conns : UcastResumeSlow(c)

SpecSlow ==
    /\ Init
    /\ [][NextSlow]_vars
    /\ \A c \in Conns : WF_vars(BcastResumeSlow(c))
    /\ \A c \in Conns : WF_vars(UcastResumeSlow(c))

-----------------------------------------------------------------------------
\* Properties.

\* c is in none of the manager's three structures.
Removed(c, ac, u2w, w2u) ==
    /\ c \notin ac
    /\ c \notin DOMAIN w2u
    /\ \A id \in DOMAIN u2w : u2w[id] # c

\* C1: in every reachable state the two ID maps are a consistent pair: every
\* entry id -> c of user_to_ws has the entry c -> id in ws_to_user, no
\* connection is the value of two IDs, and no ID is held by two connections.
IdMapsConsistentPair ==
    /\ \A id \in DOMAIN user_to_ws :
          /\ user_to_ws[id] \in DOMAIN ws_to_user
          /\ ws_to_user[user_to_ws[id]] = id
    /\ \A i, j \in DOMAIN user_to_ws :
          user_to_ws[i] = user_to_ws[j] => i = j
    /\ \A c, d \in DOMAIN ws_to_user :
          ws_to_user[c] = ws_to_user[d] => c = d

\* C2: a step in which disconnect(c) runs (c leaves the set, or c's task
\* ends) leaves c in none of the three structures: not in
\* active_connections, no key of ws_to_user, no value of user_to_ws.
DisconnectRemovesEverywhere ==
    [][\A c \in Conns :
          ((c \in active_connections \/ (pc[c] # "done" /\ pc'[c] = "done"))
           /\ c \notin active_connections')
          => Removed(c, active_connections', user_to_ws', ws_to_user')]_vars

\* C3: at every await (between any two steps of the tasks) users_online is
\* the size of active_connections.
OnlineCountIsSetSize == users_online = Cardinality(active_connections)

\* A connection whose task still runs was removed by another task's failed
\* send, and another connection is a member.
OnlineCountAfterCascade ==
    \E c \in Conns :
       /\ pc[c] = "recv"
       /\ c \notin active_connections
       /\ active_connections # {}

\* C4: register_user(id, c2) with id already a key of user_to_ws leaves
\* active_connections, user_to_ws, ws_to_user and users_online as they are;
\* when c2 is not the connection id maps to, it logs the warning that the ID
\* exists (the failure report of the second attempt).
RegisterFirstClaimWins ==
    [][\A user_id \in IDs, c2 \in Conns :
          (MgrRegister(user_id, c2) /\ user_id \in DOMAIN user_to_ws)
          => /\ UNCHANGED <<active_connections, user_to_ws, ws_to_user,
                            users_online>>
             /\ (user_to_ws[user_id] # c2) =>
                   (lastLog' = [level |-> "WARNING", id |-> user_id,
                                ws |-> c2])]_vars

\* The last step was a second claim of an ID, by another connection than the
\* one that holds it.
RegisterSecondClaimSeen ==
    /\ lastLog.level = "WARNING"
    /\ lastLog.id \in DOMAIN user_to_ws
    /\ user_to_ws[lastLog.id] # lastLog.ws

\* C5: a call of broadcast that ends has sent its text to members that were
\* in the set, open and sendable when it started, and to every one of them
\* that stayed open and sendable up to the end of the call (a send failure
\* on another member does not stop that); and every member it collected,
\* for a failed send or a channel that is not open, is in none of the
\* manager's structures when the call ends.
BroadcastDeliversAndCleans ==
    [][(out'.ended.state # "none") =>
          LET e == out'.ended
          IN  /\ e.delivered \subseteq e.startOK
              /\ \A x \in e.startOK :
                    (alive[x] /\ client_state[x] = "CONNECTED")
                    => x \in e.delivered
              /\ \A x \in e.remove :
                    Removed(x, active_connections', user_to_ws',
                            ws_to_user')]_vars

\* C6: while a task is suspended at a send of its broadcast, and stays
\* there, the steps of the other tasks leave active_connections, user_to_ws
\* and ws_to_user as they are.
BroadcastSendPhaseSerialized ==
    [][\A t \in Conns :
          (pc[t] = "bcast" /\ pc'[t] = "bcast" /\ bc'[t].cur = bc[t].cur)
          => UNCHANGED <<active_connections, user_to_ws, ws_to_user>>]_vars

\* The target of a call of send_personal_message that returns at once: the
\* targetId of a relay frame, the requester's ID of a request.
LookupTarget(c, m) ==
    IF m.type \in RelayTypes THEN m.targetId ELSE current_user_id'[c]

\* C7: send_personal_message returns True exactly when the ID was registered
\* to an open connection and the send to it succeeded.  When it returns
\* False without a send (the ID unregistered, or its connection not open) it
\* removes nothing from the manager's structures; when it returns False for
\* a failed send, the target connection is in none of them.
UnicastReturnAndCleanup ==
    [][\A c \in Conns :
          /\ (pc[c] = "ucast" /\ pc'[c] = "recv") =>
                /\ (out'.ret = "true") <=> alive[uc[c].client]
                /\ (out'.ret = "true") =>
                      (out'.to = uc[c].client /\ out'.msg = uc[c].msg)
                /\ (out'.ret = "false") =>
                      /\ out'.to = NoConn
                      /\ Removed(uc[c].client, active_connections',
                                 user_to_ws', ws_to_user')
          /\ \A m \in ClientFrames :
                (RecvRelay(c, m) \/ RecvRequestUsers(c, m)) =>
                   LET t == LookupTarget(c, m)
                       open == /\ t \in DOMAIN user_to_ws'
                               /\ client_state[user_to_ws'[t]] = "CONNECTED"
                   IN  /\ (t # None /\ open) => (pc'[c] = "ucast")
                       /\ (t # None /\ ~open) =>
                             /\ out'.ret = "false" /\ out'.to = NoConn
                             /\ active_connections' = active_connections
                             /\ users_online' = users_online
                             /\ \A id \in DOMAIN user_to_ws :
                                   /\ id \in DOMAIN user_to_ws'
                                   /\ user_to_ws'[id] = user_to_ws[id]
                             /\ \A w \in DOMAIN ws_to_user :
                                   w \in DOMAIN ws_to_user']_vars

\* C8: the reply to request_online_users goes to the requesting connection
\* and to no other, addressed by the ID that connection is registered with;
\* a requester with no registered ID is sent nothing.
OnlineUsersReplyToRequester ==
    [][\A c \in Conns :
          /\ (pc[c] = "recv" /\ pc'[c] = "ucast" /\ uc'[c].kind = "reply") =>
                /\ uc'[c].client = c
                /\ c \in DOMAIN ws_to_user'
                /\ ws_to_user'[c] = uc'[c].id
          /\ (pc[c] = "ucast" /\ uc[c].kind = "reply" /\ out'.to # NoConn
              /\ pc'[c] = "recv") => (out'.to = c)]_vars

\* C9: a relay frame m with a targetId that is registered when
\* send_personal_message looks it up (after the frame's own senderId was
\* registered) is sent to that one connection and to no other, and the text
\* sent is m itself; with the targetId unregistered at the lookup, or
\* missing, the frame is sent to nobody and the sender stays a member.
RelayForwardsOriginalToTarget ==
    [][\A c \in Conns :
          /\ \A m \in ClientFrames :
                RecvRelay(c, m) =>
                   /\ out'.to = NoConn
                   /\ (pc'[c] = "ucast") =>
                         /\ m.targetId \in DOMAIN user_to_ws'
                         /\ uc'[c].client = user_to_ws'[m.targetId]
                         /\ uc'[c].msg = m
                         /\ uc'[c].kind = "relay"
                   /\ (m.targetId = None
                       \/ m.targetId \notin DOMAIN user_to_ws')
                      => /\ pc'[c] = "recv"
                         /\ (c \in active_connections
                             => c \in active_connections')
          /\ (pc[c] = "ucast" /\ uc[c].kind = "relay") =>
                /\ (pc'[c] = "ucast") => (uc'[c] = uc[c])
                /\ (pc'[c] = "recv") =>
                      \/ out'.to = NoConn
                      \/ out'.to = uc[c].client /\ out'.msg = uc[c].msg]_vars

\* A relay frame was delivered to another connection than its sender, and
\* its text is not what json.dumps would make of it.
RelayDeliveredUnchanged ==
    /\ out.to # NoConn
    /\ out.ret = "true"
    /\ out.msg.type \in RelayTypes
    /\ out.msg.senderId # None
    /\ current_user_id[out.to] # out.msg.senderId
    /\ out.msg # json_dumps(json_loads(out.msg))

\* C10: a connection whose task has ended (by a close, a transport error or
\* an exception in the handling of a frame) is in none of the manager's
\* structures, then and ever after.
EndedTaskIsRemoved ==
    \A c \in Conns :
       pc[c] = "done" => Removed(c, active_connections, user_to_ws, ws_to_user)

\* C11: disconnect is idempotent.  After a step that is disconnect(c), one
\* more disconnect(c) leaves active_connections, user_to_ws, ws_to_user and
\* users_online as they are; and in every state, for every connection d,
\* disconnect(d) twice gives what disconnect(d) gives once, and disconnect(d)
\* of a connection that is in none of the structures (removed before, or
\* never added) changes nothing.  (disconnect has no statement that raises:
\* discard, and pop with a default.)
DisconnectIdempotent ==
    [][/\ \A c \in Conns :
             MgrDisconnect(c) => (disconnect(Manager', c) = Manager')
       /\ \A d \in Conns :
             /\ disconnect(disconnect(Manager, d), d) = disconnect(Manager, d)
             /\ Removed(d, active_connections, user_to_ws, ws_to_user)
                   => (disconnect(Manager, d) = Manager)]_vars

\* A registered connection was disconnected while others are members: it is
\* in none of the structures, and disconnect can be called for it again.
DisconnectedOnceCallableAgain ==
    \E c \in Conns :
       /\ pc[c] = "recv"
       /\ Removed(c, active_connections, user_to_ws, ws_to_user)
       /\ \E d \in active_connections : d \in DOMAIN ws_to_user

\* C12: a frame whose type is none of the recognized types, whatever its
\* senderId, leaves active_connections, user_to_ws, ws_to_user, users_online
\* and custom_data as they are, sends nothing, and leaves the task at its
\* receive.
UnknownTypeNoAction ==
    [][\A c \in Conns, m \in ClientFrames :
          RecvUnknown(c, m) =>
             /\ UNCHANGED <<active_connections, user_to_ws, ws_to_user,
                            users_online, custom_data>>
             /\ out'.to = NoConn
             /\ pc'[c] = "recv"]_vars

\* C13: the step that handles an UPDATE_FROM_A frame with payload p leaves
\* custom_data = p (whatever it was before, so that the second of two frames
\* leaves the second payload), and starts a broadcast of a data_update
\* envelope in that step, one broadcast per frame.
StateUpdateReplacesAndBroadcasts ==
    [][\A c \in Conns, m \in ClientFrames :
          (RecvUnknown(c, m) /\ m.type = StateUpdateType) =>
             /\ custom_data' = m.payload
             /\ \/ pc'[c] = "bcast" /\ bc'[c].msg.type = "data_update"
                \/ /\ out'.ended.state # "none"
                   /\ out'.ended.msg.type = "data_update"]_vars

\* C14: the step that receives a frame that is no JSON leaves
\* active_connections, user_to_ws, ws_to_user, users_online and custom_data
\* as they are (the sender stays a member, with its ID), sends nothing, and
\* leaves the sender's task at its receive, open, for the next frame.
MalformedFrameDropped ==
    [][\A c \in Conns, m \in ClientFrames :
          RecvInvalid(c, m) =>
             /\ UNCHANGED <<active_connections, user_to_ws, ws_to_user,
                            users_online, custom_data, client_state,
                            current_user_id>>
             /\ out' = NoOut
             /\ pc'[c] = "recv"]_vars

\* The last step dropped a frame that is no JSON, of a member that has an
\* ID; it is at its receive.
MalformedFrameSurvived ==
    /\ lastLog.level = "WARNING"
    /\ lastLog.id = None
    /\ lastLog.ws \in active_connections
    /\ lastLog.ws \in DOMAIN ws_to_user
    /\ pc[lastLog.ws] = "recv"

\* The text of t's broadcast in progress, or of the broadcast that ended in
\* the last step, has been sent to y.
BroadcastReached(t, y) ==
    \/ bc[t].state = "sending" /\ y \in bc[t].delivered
    \/ out.ended.state # "none" /\ y \in out.ended.delivered

\* C15: with the send to the slow peer suspended for ever, a broadcast that
\* is suspended at that send still reaches every other member that was open
\* and sendable at its start: each of them is eventually sent the text,
\* unless it stops being open and sendable.
BroadcastNotStalledBySlowPeer ==
    \A t \in Conns, y \in Conns \ {SlowPeer} :
       (/\ pc[t] = "bcast"
        /\ bc[t].cur = SlowPeer
        /\ y \in bc[t].pending \cap bc[t].startOK)
       ~> (\/ ~alive[y]
           \/ client_state[y] # "CONNECTED"
           \/ BroadcastReached(t, y))

\* C16: a step of the sender's own broadcast (the frame that starts it, or
\* the end of one of its sends) never ends the sender's task, and removes
\* the sender from active_connections only as a client the broadcast
\* collected, for a failed send to the sender or its channel not being open,
\* and disconnected on its return.
BroadcastSenderSurvivesOthers ==
    [][\A c \in Conns :
          (BcastResume(c) \/ \E m \in ClientFrames : RecvBroadcast(c, m)) =>
             /\ pc'[c] # "done"
             /\ (c \in active_connections /\ c \notin active_connections')
                   => /\ out'.ended.state = "returned"
                      /\ c \in out'.ended.remove]_vars

\* C17: in every reachable state every entry c -> id of ws_to_user has the
\* entry id -> c in user_to_ws: the ID is a key of user_to_ws, and its value
\* is c and no other connection.
ReverseMapHasForwardEntry ==
    \A c \in DOMAIN ws_to_user :
       /\ ws_to_user[c] \in DOMAIN user_to_ws
       /\ user_to_ws[ws_to_user[c]] = c

\* A connection holds an ID in both maps while user_to_ws still has an ID of
\* a connection whose task has ended and that disconnect has removed from
\* ws_to_user.
ReverseMapAfterStaleForward ==
    \E c \in DOMAIN ws_to_user, d \in Conns :
       /\ pc[d] = "done"
       /\ d \notin DOMAIN ws_to_user
       /\ \E id \in DOMAIN user_to_ws : user_to_ws[id] = d

\* C18: a step that inserts an ID mapping (a new key of user_to_ws, or a new
\* or changed entry of ws_to_user) inserts it for a connection that is a
\* member of active_connections when it is inserted; a connection that
\* another task's failed send has removed is not registered by a frame it
\* sends later.
RegistrationOnlyForMembers ==
    [][/\ \A id \in IDs :
             (id \notin DOMAIN user_to_ws /\ id \in DOMAIN user_to_ws')
             => user_to_ws'[id] \in active_connections
       /\ \A c \in Conns :
             (/\ c \in DOMAIN ws_to_user'
              /\ (c \in DOMAIN ws_to_user => ws_to_user'[c] # ws_to_user[c]))
             => c \in active_connections]_vars

\* The IDs user_to_ws maps to d.
OwnedIDs(u2w, d) == {id \in DOMAIN u2w : u2w[id] = d}

\* C19: a step that is disconnect(c) leaves every other connection d as it
\* is registered: d is a member after it exactly if it was before, the IDs
\* user_to_ws maps to d are the same, and d's entry of ws_to_user is the
\* same; also when c has tried before to claim an ID that d holds.
DisconnectLeavesOthers ==
    [][\A c \in Conns :
          MgrDisconnect(c) =>
             \A d \in Conns \ {c} :
                /\ (d \in active_connections') <=> (d \in active_connections)
                /\ OwnedIDs(user_to_ws', d) = OwnedIDs(user_to_ws, d)
                /\ (d \in DOMAIN ws_to_user') <=> (d \in DOMAIN ws_to_user)
                /\ (d \in DOMAIN ws_to_user)
                      => (ws_to_user'[d] = ws_to_user[d])]_vars

\* A connection that had an ID was disconnected while another member holds
\* an ID in both maps.
DisconnectedBesideRegistered ==
    \E c \in Conns : \E d \in Conns \ {c} :
       /\ pc[c] = "recv"
       /\ c \notin active_connections
       /\ OwnedIDs(user_to_ws, c) # {}
       /\ d \in active_connections
       /\ d \in DOMAIN ws_to_user
       /\ OwnedIDs(user_to_ws, d) # {}

====
